---- MODULE Spec2Model ----
(***************************************************************************)
(* Session / credential lifecycle of resources/lib/sky.py (SkyShowtime).   *)
(*                                                                         *)
(* The persisted directory is modelled as `files` (one optional content    *)
(* per logical path, <<>> = no such file, <<c>> = file holding c) together *)
(* with `age` (time.time() minus the write time of the file, in seconds).  *)
(* `account` and `platforms` are the CLASS attributes of SkyShowtime: they *)
(* are shared by every instance created in one interpreter.  The remaining *)
(* variables are the attributes of the most recently constructed instance. *)
(* `instances` counts the instances the interpreter has created.  `op`,    *)
(* `calls` and `ret` observe the last operation: its name and arguments,   *)
(* the upstream requests it sent (in order, each with the kind of answer   *)
(* it got) and the value it returned (<<>> for None).                      *)
(***************************************************************************)
EXTENDS Integers, Sequences, FiniteSets, TLC

VARIABLES files, age, account, platforms,
          pldir, logged, get_token_error, search_list, net_headers,
          instances, op, calls, ret

vars == <<files, age, account, platforms,
          pldir, logged, get_token_error, search_list, net_headers,
          instances, op, calls, ret>>

(***************************************************************************)
(* Bounds of the model.                                                    *)
(***************************************************************************)
\* ages saturate here; every ttl the program uses is below it
MaxAge == 61
\* the instances one interpreter creates
MaxInstances == 2
\* longest search list that is tracked
MaxSearch == 3

\* the images of a list given to get_art
MaxImages == 3
\* the entries of a rail given to parse_catalog
MaxItems == 3

(***************************************************************************)
(* Python values.                                                          *)
(***************************************************************************)
\* None, for a string-valued attribute
None == "None"
\* None, for account['cookie']
NoCookie == << <<"None">> >>

\* two-letter upper case codes: what [A-Z]{2} matches
UpperCodes == {"ES", "US", "PL", "NL", "GB", "XX"}

\* `if x:` on a cookie value (None and '' are false)
CookieTruthy(c) == c # NoCookie /\ c # <<>>

\* `if x:` on a string value (None and '' are false)
Truthy(s) == s # None /\ s # ""

\* the lists of at most n elements of S
SeqsUpTo(S, n) == UNION {[1..k -> S] : k \in 0..n}

RECURSIVE SearchHterr(_)
\* re.search(b'hterr=([A-Z]{2})', cookie): the cookie string is the list of
\* key=value pairs joined by '; '; the first pair hterr=XX gives the group.
SearchHterr(c) ==
  IF c = <<>> THEN None
  ELSE IF Len(Head(c)) = 2 /\ Head(c)[1] = "hterr" /\ Head(c)[2] \in UpperCodes
       THEN Head(c)[2]
       ELSE SearchHterr(Tail(c))

(***************************************************************************)
(* The platform table (class attribute `platforms`).                       *)
(***************************************************************************)
Platforms == {"skyshowtime", "peacocktv"}

\* the host of a platform, as the list of its parts
PlatformHost(p) == IF p = "skyshowtime" THEN <<"skyshowtime", ".com">> ELSE <<"peacocktv", ".com">>

PlatformProvider(p) == IF p = "skyshowtime" THEN "SKYSHOWTIME" ELSE "NBCU"

PlatformProposition(p) == IF p = "skyshowtime" THEN "SKYSHOWTIME" ELSE "NBCUOTT"

\* the three platform headers that __init__ rewrites
DefaultHeaders(p) ==
  IF p = "skyshowtime"
  THEN [activeterritory |-> "ES", language |-> "en-US", territory |-> "ES"]
  ELSE [activeterritory |-> "US", language |-> "en",    territory |-> "US"]

InitPlatforms == [p \in Platforms |-> [headers |-> DefaultHeaders(p), device_id |-> None]]

InitAccount ==
  [cookie |-> NoCookie, profile_id |-> None, profile_type |-> None,
   my_segments |-> <<>>, user_token |-> None]

(***************************************************************************)
(* Persisted paths.                                                        *)
(***************************************************************************)
PlatformFiles == {"cookie.conf", "device_id.conf", "localisation.json", "profile.json",
                  "profile_info.json", "token.json", "menu.json", "me.json"}

SharedFiles == {"searchs.json", "cache/epg.json"}

Path(p, f) == <<p, f>>

Shared(f) == <<"", f>>

Paths == {Path(p, f) : p \in Platforms, f \in PlatformFiles} \cup {Shared(f) : f \in SharedFiles}

(***************************************************************************)
(* Cache (resources/lib/cache.py): load / load_file / save / remove.       *)
(***************************************************************************)
\* the ttl of token.json
TokenTTL == 60
\* the ttl of cache/epg.json
EpgTTL == 60

\* Cache.load_file(path): the content, <<>> when there is no such file
load_file(fs, path) == fs[path]

\* Cache.load(path, ttl): an entry is fresh iff now - write_time < ttl;
\* ttl = 0 (or no ttl argument) means no expiry
load(fs, ag, path, ttl) ==
  IF fs[path] = <<>> THEN <<>>
  ELSE IF ttl > 0 /\ ~(ag[path] < ttl) THEN <<>>
  ELSE fs[path]

\* Cache.save_file / Cache.save_json: (re)writes the entry now
save_files(fs, path, content) == [fs EXCEPT ![path] = <<content>>]

save_age(ag, path) == [ag EXCEPT ![path] = 0]

\* Cache.remove_file: a missing file is not an error
remove_files(fs, paths) == [q \in DOMAIN fs |-> IF q \in paths THEN <<>> ELSE fs[q]]

remove_age(ag, paths) == [q \in DOMAIN ag |-> IF q \in paths THEN 0 ELSE ag[q]]

(***************************************************************************)
(* Upstream: what the Transport may answer, and the random device id.      *)
(***************************************************************************)
\* random.choice over letters and digits, 20 times
DeviceIds == {"dev1", "dev2"}

\* the territory argument of __init__
Territories == {None, "GB"}

\* the cookie jar of a login response
CookieJars == { << <<"sid", "1">>, <<"hterr", "PL">> >>, << <<"sid", "2">> >> }

\* the localisation answer: with or without 'headers'
LocResponses ==
  { [has_headers |-> FALSE, activeterritory |-> None, language |-> None, territory |-> None],
    [has_headers |-> TRUE, activeterritory |-> "XX", language |-> "pl-PL", territory |-> "PL"],
    [has_headers |-> TRUE, activeterritory |-> "NL", language |-> "nl-NL", territory |-> "NL"] }

Profile1 == [id |-> "p1", type |-> "Adult"]

Profile2 == [id |-> "p2", type |-> "Kid"]

\* the personas of the profile list answer, already reduced to id and type
ProfileLists == { <<>>, <<Profile1, Profile2>> }

\* the profile info answer: with or without persona.displayLanguage
ProfileInfoResponses ==
  { [has_lang |-> FALSE, displayLanguage |-> None],
    [has_lang |-> TRUE, displayLanguage |-> "de"] }

\* the token answer, with userToken or with a description: None stands for
\* a key that is not in the answer
TokenResponses ==
  { [userToken |-> "tok1", description |-> None],
    [userToken |-> "tok2", description |-> None],
    [userToken |-> None, description |-> "denied"] }

\* the names of segmentation.content of the me answer
MeResponses == { <<"s1">>, <<"s2">> }

\* a request handed to the Transport; `ok` is set when it is sent, and
\* tells whether the answer carried what the caller looks for
Req(name, cookie, persona, device, terr, token, signed, devhdr) ==
  [name |-> name, cookie |-> cookie, personaId |-> persona, deviceId |-> device,
   providerTerritory |-> terr, usertoken |-> token, signed |-> signed,
   device_header |-> devhdr, ok |-> TRUE]

(***************************************************************************)
(* The requests built by the methods of SkyShowtime.  `m` is the state a   *)
(* method works on: the persisted files, the class attributes and the      *)
(* attributes of the instance, with the requests sent so far.              *)
(***************************************************************************)
\* get_localisation: signed GET; net.headers holds no platform header yet
get_localisation_req(m, p) ==
  Req("localisation", NoCookie, None, None, None, None, TRUE, FALSE)

\* get_profiles: POST with the cookie of the account; no signature is computed
get_profiles_req(m, p) ==
  Req("profiles", m.account.cookie, None, None, None, None, FALSE, TRUE)

\* get_profile_info(profile_id): signed GET with the cookie of the account
get_profile_info_req(m, p, profile_id) ==
  Req("profile_info", m.account.cookie, profile_id, None, None, None, TRUE, TRUE)

\* get_tokens: signed POST; personaId, device id and providerTerritory are
\* read from account['profile_id'] and from the platform entry
get_tokens_req(m, p) ==
  Req("tokens", m.account.cookie, m.account.profile_id, m.platforms[p].device_id,
      m.platforms[p].headers.territory, None, TRUE, FALSE)

\* get_me: signed GET; the user token header is added when a token is held
get_me_req(m, p) ==
  Req("me", NoCookie, None, None, None,
      IF Truthy(m.account.user_token) THEN m.account.user_token ELSE None, TRUE, TRUE)

Send(m, r, ok) == [m EXCEPT !.calls = Append(@, [r EXCEPT !.ok = ok])]

Save(m, path, content) ==
  [m EXCEPT !.files = save_files(@, path, content), !.age = save_age(@, path)]

Remove(m, paths) ==
  [m EXCEPT !.files = remove_files(@, paths), !.age = remove_age(@, paths)]

(***************************************************************************)
(* SkyShowtime.__init__, step by step.                                     *)
(***************************************************************************)
\* lines 67-91: a new instance; Network() starts with the default headers
NewInstance ==
  [files |-> files, age |-> age, account |-> account, platforms |-> platforms,
   logged |-> FALSE, get_token_error |-> "", search_list |-> <<>>,
   net_headers |-> [activeterritory |-> None, language |-> None, territory |-> None],
   calls |-> <<>>]

\* lines 93-97: load cookie
LoadCookie(m, p) ==
  LET content == load_file(m.files, Path(p, "cookie.conf")) IN
  IF content # <<>> /\ CookieTruthy(content[1])
  THEN [m EXCEPT !.account.cookie = content[1], !.logged = TRUE]
  ELSE m

\* LoadDeviceId without lines 100-102: an id is created at every bootstrap
LoadDeviceId_always_new(m, p, rnd) ==
  Save([m EXCEPT !.platforms[p].device_id = rnd], Path(p, "device_id.conf"), rnd)

\* lines 99-105: load device_id, or create and save one (rnd)
LoadDeviceId(m, p, rnd) ==
  LET content == load_file(m.files, Path(p, "device_id.conf")) IN
  IF content # <<>>
  THEN [m EXCEPT !.platforms[p].device_id = content[1]]
  ELSE Save([m EXCEPT !.platforms[p].device_id = rnd], Path(p, "device_id.conf"), rnd)

\* CookieTerritory with line 108 not testing `not territory`
CookieTerritory_cookie_first(m, territory) ==
  IF CookieTruthy(m.account.cookie)
  THEN LET g == SearchHterr(m.account.cookie) IN IF g # None THEN g ELSE territory
  ELSE territory

\* lines 107-110: the territory from the cookie, unless one was given
CookieTerritory(m, territory) ==
  IF ~Truthy(territory) /\ CookieTruthy(m.account.cookie)
  THEN LET g == SearchHterr(m.account.cookie) IN IF g # None THEN g ELSE territory
  ELSE territory

\* line 115: is localisation.json served from the cache
LocalisationCached(m, p) == load(m.files, m.age, Path(p, "localisation.json"), 0) # <<>>

\* lines 113-128: load localisation, or fetch it (resp) and save it when
\* it has 'headers'; its hints replace three platform headers
LoadLocalisation(m, p, resp) ==
  LET content == load(m.files, m.age, Path(p, "localisation.json"), 0)
      extra_headers == IF content # <<>> THEN content[1] ELSE resp
      m1 == IF content # <<>> THEN m
            ELSE LET s == Send(m, get_localisation_req(m, p), extra_headers.has_headers) IN
                 IF extra_headers.has_headers
                 THEN Save(s, Path(p, "localisation.json"), extra_headers)
                 ELSE s
  IN IF extra_headers.has_headers
     THEN [m1 EXCEPT !.platforms[p].headers =
             [activeterritory |-> extra_headers.activeterritory,
              language |-> extra_headers.language,
              territory |-> extra_headers.territory]]
     ELSE m1

\* OverrideTerritory without the test of line 132
OverrideTerritory_always(m, p, territory) ==
  LET h == m.platforms[p].headers
      h1 == IF Truthy(territory)
            THEN [h EXCEPT !.territory = territory, !.activeterritory = territory]
            ELSE h
  IN [m EXCEPT !.platforms[p].headers = h1, !.net_headers = h1]

\* lines 129-134: the territory overrides the localisation; net.headers
\* takes the platform headers
OverrideTerritory(m, p, territory) ==
  LET h == m.platforms[p].headers
      h1 == IF Truthy(territory)
            THEN [h EXCEPT !.territory = territory,
                           !.activeterritory = IF @ = "XX" THEN territory ELSE @]
            ELSE h
  IN [m EXCEPT !.platforms[p].headers = h1, !.net_headers = h1]

\* line 139: is profile.json there
ProfileCached(m, p) == load_file(m.files, Path(p, "profile.json")) # <<>>

\* lines 444-450: select_default_profile with the fetched list `profiles`
select_default_profile(m, p, profiles) ==
  LET s == Send(m, get_profiles_req(m, p), Len(profiles) > 0) IN
  IF Len(profiles) > 0
  THEN [Save(s, Path(p, "profile.json"), profiles[1])
          EXCEPT !.account.profile_id = profiles[1].id,
                 !.account.profile_type = profiles[1].type]
  ELSE [s EXCEPT !.account.profile_id = None, !.account.profile_type = None]

\* lines 138-145: load profile, or select the default one
LoadProfile(m, p, profiles) ==
  LET content == load_file(m.files, Path(p, "profile.json")) IN
  IF content # <<>>
  THEN [m EXCEPT !.account.profile_id = content[1].id,
                 !.account.profile_type = content[1].type]
  ELSE select_default_profile(m, p, profiles)

\* lines 147-149: is the profile info fetched
ProfileInfoFetched(m, p) ==
  Truthy(m.account.profile_id) /\ load_file(m.files, Path(p, "profile_info.json")) = <<>>

\* LoadProfileInfo without lines 149-151: the profile info is always fetched
LoadProfileInfo_always_fetch(m, p, resp) ==
  IF ~Truthy(m.account.profile_id) THEN m
  ELSE LET m1 == Save(Send(m, get_profile_info_req(m, p, m.account.profile_id), resp.has_lang),
                      Path(p, "profile_info.json"), resp)
       IN IF resp.has_lang
          THEN LET h == [m1.platforms[p].headers EXCEPT !.language = resp.displayLanguage]
               IN [m1 EXCEPT !.platforms[p].headers = h, !.net_headers = h]
          ELSE m1

\* lines 147-157: profile info, loaded or fetched (resp) and saved; its
\* displayLanguage replaces the language header
LoadProfileInfo(m, p, resp) ==
  IF ~Truthy(m.account.profile_id) THEN m
  ELSE LET content == load_file(m.files, Path(p, "profile_info.json"))
           data == IF content # <<>> THEN content[1] ELSE resp
           m1 == IF content # <<>> THEN m
                 ELSE Save(Send(m, get_profile_info_req(m, p, m.account.profile_id), data.has_lang),
                           Path(p, "profile_info.json"), data)
       IN IF data.has_lang
          THEN LET h == [m1.platforms[p].headers EXCEPT !.language = data.displayLanguage]
               IN [m1 EXCEPT !.platforms[p].headers = h, !.net_headers = h]
          ELSE m1

\* line 161: is token.json served from the cache
TokenCached(m, p) == load(m.files, m.age, Path(p, "token.json"), TokenTTL) # <<>>

\* LoadToken with line 161 loading token.json without a ttl
LoadToken_no_ttl(m, p, resp) ==
  LET content == load(m.files, m.age, Path(p, "token.json"), 0)
      data == IF content # <<>> THEN content[1] ELSE resp
      m1 == IF content # <<>> THEN m
            ELSE LET s == Send(m, get_tokens_req(m, p), data.userToken # None)
                     s1 == IF data.userToken # None
                           THEN Save(s, Path(p, "token.json"), data) ELSE s
                 IN IF data.description # None
                    THEN [s1 EXCEPT !.get_token_error = data.description] ELSE s1
  IN IF data.userToken # None
     THEN [m1 EXCEPT !.account.user_token = data.userToken]
     ELSE m1

\* lines 159-171: the user token, from a token.json younger than the ttl or
\* minted (resp); only an answer with userToken is saved, a description is
\* kept in get_token_error
LoadToken(m, p, resp) ==
  LET content == load(m.files, m.age, Path(p, "token.json"), TokenTTL)
      data == IF content # <<>> THEN content[1] ELSE resp
      m1 == IF content # <<>> THEN m
            ELSE LET s == Send(m, get_tokens_req(m, p), data.userToken # None)
                     s1 == IF data.userToken # None
                           THEN Save(s, Path(p, "token.json"), data) ELSE s
                 IN IF data.description # None
                    THEN [s1 EXCEPT !.get_token_error = data.description] ELSE s1
  IN IF data.userToken # None
     THEN [m1 EXCEPT !.account.user_token = data.userToken]
     ELSE m1

\* lines 173-175: the saved searches
LoadSearch(m) ==
  LET data == load_file(m.files, Shared("searchs.json")) IN
  [m EXCEPT !.search_list = IF data # <<>> THEN data[1] ELSE <<>>]

\* lines 178-180: is the me answer fetched
MeFetched(m, p) ==
  Truthy(m.account.user_token) /\ load(m.files, m.age, Path(p, "me.json"), 0) = <<>>

\* LoadMySegments without line 185: the fetched me answer is not saved
LoadMySegments_unsaved(m, p, resp) ==
  IF ~Truthy(m.account.user_token) THEN m
  ELSE LET content == load(m.files, m.age, Path(p, "me.json"), 0)
           data == IF content # <<>> THEN content[1] ELSE resp
           m1 == IF content # <<>> THEN m ELSE Send(m, get_me_req(m, p), TRUE)
       IN [m1 EXCEPT !.account.my_segments = @ \o data]

\* lines 177-187: with a user token, the me answer is loaded or fetched
\* (resp) and saved, and its segment names are appended to my_segments
LoadMySegments(m, p, resp) ==
  IF ~Truthy(m.account.user_token) THEN m
  ELSE LET content == load(m.files, m.age, Path(p, "me.json"), 0)
           data == IF content # <<>> THEN content[1] ELSE resp
           m1 == IF content # <<>> THEN m
                 ELSE Save(Send(m, get_me_req(m, p), TRUE), Path(p, "me.json"), data)
       IN [m1 EXCEPT !.account.my_segments = @ \o data]

\* what is not fetched is not chosen
Choices(fetched, responses) == IF fetched THEN responses ELSE {CHOOSE r \in responses : TRUE}

\* the state a method leaves behind
Commit(m, p, name, result) ==
  /\ files' = m.files
  /\ age' = m.age
  /\ account' = m.account
  /\ platforms' = m.platforms
  /\ pldir' = p
  /\ logged' = m.logged
  /\ get_token_error' = m.get_token_error
  /\ search_list' = m.search_list
  /\ net_headers' = m.net_headers
  /\ op' = name
  /\ calls' = m.calls
  /\ ret' = result

\* everything the Transport and the random generator may answer
Upstream ==
  [dev |-> DeviceIds, loc |-> LocResponses, profiles |-> ProfileLists,
   info |-> ProfileInfoResponses, tok |-> TokenResponses, me |-> MeResponses]

\* SkyShowtime(config_directory, platform, territory), answered from U
Bootstrap(p, territory, U) ==
  LET m1 == LoadCookie(NewInstance, p) IN
  \E rnd \in Choices(load_file(m1.files, Path(p, "device_id.conf")) = <<>>, U.dev) :
  LET m2 == LoadDeviceId(m1, p, rnd)
      terr == CookieTerritory(m2, territory) IN
  \E loc \in Choices(~LocalisationCached(m2, p), U.loc) :
  LET m3 == OverrideTerritory(LoadLocalisation(m2, p, loc), p, terr) IN
  \E profiles \in Choices(~ProfileCached(m3, p), U.profiles) :
  LET m4 == LoadProfile(m3, p, profiles) IN
  \E info \in Choices(ProfileInfoFetched(m4, p), U.info) :
  LET m5 == LoadProfileInfo(m4, p, info) IN
  \E tok \in Choices(~TokenCached(m5, p), U.tok) :
  LET m6 == LoadSearch(LoadToken(m5, p, tok)) IN
  \E me \in Choices(MeFetched(m6, p), U.me) :
  LET m7 == LoadMySegments(m6, p, me) IN
  /\ instances < MaxInstances
  /\ instances' = instances + 1
  /\ Commit(m7, p, <<"bootstrap", p, territory>>, <<>>)

(***************************************************************************)
(* Catalog normalisation: is_subscribed, get_art, parse_catalog and        *)
(* parse_item.  A key that a dict does not have is a field the record does *)
(* not have; an url is the list of its parts, the empty list for None.     *)
(***************************************************************************)
\* is_subscribed requiring every segment of the item in the session's list
is_subscribed_every(my_segments, segments) ==
  \A j \in 1..Len(segments) : \E i \in 1..Len(my_segments) : segments[j] = my_segments[i]

\* is_subscribed(segments): one of account['my_segments'] is in segments
is_subscribed(my_segments, segments) ==
  \E i \in 1..Len(my_segments) : \E j \in 1..Len(segments) : segments[j] = my_segments[i]

\* a dict without keys
NoFields == [k \in {} |-> k]

\* lines 234-236 and 328-330: 'segments' and 'subscribed' are set when the
\* payload has contentSegments (cs is <<>> without the key)
Entitlement(my_segments, cs) ==
  IF cs # <<>>
  THEN [segments |-> cs[1], subscribed |-> is_subscribed(my_segments, cs[1])]
  ELSE NoFields

\* None, for an url
NoUrl == <<>>

\* image_url(url): '?language' becomes '/400?language'
image_url(url) == [k \in 1..Len(url) |-> IF url[k] = "?language" THEN "/400?language" ELSE url[k]]

\* the image types get_art looks for, and one it ignores
ImageTypes ==
  {"titleArt34", "nonTitleArt34", "titleArt169", "landscape", "titleLogo", "scene169", "other"}

\* the image of a type, as upstream sends it
Image(type) == [type |-> type, url |-> <<type, "?language">>]

\* lines 198-199: art and the two 4:3 candidates before the loop ('clearlogo'
\* is NoUrl while the key is not set)
ArtInit ==
  [art |-> [clearlogo |-> NoUrl, fanart |-> NoUrl, icon |-> NoUrl, poster |-> NoUrl,
            thumb |-> NoUrl],
   nontitle34 |-> NoUrl, title34 |-> NoUrl]

\* lines 201-215: one iteration of the loop, with the three fallbacks that
\* end it
ArtStep(s, i) ==
  LET u == image_url(i.url)
      s1 == CASE i.type = "titleArt34" -> [s EXCEPT !.title34 = u]
              [] i.type = "nonTitleArt34" -> [s EXCEPT !.nontitle34 = u]
              [] i.type = "titleArt169" -> [s EXCEPT !.art.poster = u]
              [] i.type = "landscape" -> [s EXCEPT !.art.fanart = u]
              [] i.type = "titleLogo" -> [s EXCEPT !.art.clearlogo = u]
              [] i.type = "scene169" -> [s EXCEPT !.art.thumb = u]
              [] OTHER -> s
      s2 == IF s1.title34 # NoUrl /\ s1.art.poster = NoUrl
            THEN [s1 EXCEPT !.art.poster = s1.title34] ELSE s1
      s3 == IF s2.nontitle34 # NoUrl /\ s2.art.poster = NoUrl
            THEN [s2 EXCEPT !.art.poster = s2.nontitle34] ELSE s2
  IN IF s3.art.thumb = NoUrl THEN [s3 EXCEPT !.art.thumb = s3.art.poster] ELSE s3

RECURSIVE ArtLoop(_, _)
\* the loop of get_art over the images, from state s
ArtLoop(images, s) ==
  IF images = <<>> THEN s ELSE ArtLoop(Tail(images), ArtStep(s, Head(images)))

\* get_art(images)
get_art(images) == ArtLoop(images, ArtInit).art

\* the four playable asset types of line 252
AssetTypes == {"ASSET/PROGRAMME", "ASSET/SLE", "ASSET/SHORTFORM/CLIP", "ASSET/EPISODE"}

\* the type discriminators of the entries upstream sends; the last one is
\* not known to the parsers
EntryTypes ==
  {"CATALOGUE/COLLECTION", "CATALOGUE/LINK", "CATALOGUE/SERIES", "CATALOGUE/SEASON",
   "CATALOGUE/GROUP"} \cup AssetTypes

\* an entry of a rail: id i, with or without linkInfo and contentSegments
\* (<<>> for a key the entry does not have); no entry has displayStartTime
Entry(type, i, linkInfo, cs) ==
  [contentSegments |-> cs, id |-> <<"id", i>>, images |-> <<Image("nonTitleArt34")>>,
   linkInfo |-> IF linkInfo THEN <<[nodeId |-> <<"node", i>>, slug |-> <<"link", i>>]>> ELSE <<>>,
   slug |-> <<"slug", i>>, title |-> <<"title", i>>, type |-> type]

\* catalog_item appending a link that has no linkInfo
catalog_item_keep_links(e, my_segments) ==
  LET t(id, slug, type, art) ==
        [art |-> art, id |-> id, slug |-> slug, title |-> e.title, type |-> type]
        @@ Entitlement(my_segments, e.contentSegments)
  IN CASE e.type = "CATALOGUE/COLLECTION" ->
            <<t(e.id, e.slug, "category", NoFields)>>
       [] e.type = "CATALOGUE/LINK" ->
            IF e.linkInfo # <<>>
            THEN <<t(e.linkInfo[1].nodeId, e.linkInfo[1].slug, "category", NoFields)>>
            ELSE <<t(e.id, e.slug, "category", NoFields)>>
       [] e.type \in AssetTypes ->
            <<t(e.id, e.slug, "movie", get_art(e.images))
              @@ [mediatype |-> IF e.type = "ASSET/EPISODE" THEN "episode" ELSE "movie"]>>
       [] e.type = "CATALOGUE/SERIES" ->
            <<t(e.id, e.slug, "series", get_art(e.images)) @@ [mediatype |-> "tvshow"]>>
       [] OTHER -> <<>>

\* lines 227-277: the body of the loop of parse_catalog for one entry: the
\* item it appends, or nothing.  Of info, title and mediatype are kept
catalog_item(e, my_segments) ==
  LET t(id, slug, type, art) ==
        [art |-> art, id |-> id, slug |-> slug, title |-> e.title, type |-> type]
        @@ Entitlement(my_segments, e.contentSegments)
  IN CASE e.type = "CATALOGUE/COLLECTION" ->
            <<t(e.id, e.slug, "category", NoFields)>>
       [] e.type = "CATALOGUE/LINK" ->
            IF e.linkInfo # <<>>
            THEN <<t(e.linkInfo[1].nodeId, e.linkInfo[1].slug, "category", NoFields)>>
            ELSE <<>>
       [] e.type \in AssetTypes ->
            <<t(e.id, e.slug, "movie", get_art(e.images))
              @@ [mediatype |-> IF e.type = "ASSET/EPISODE" THEN "episode" ELSE "movie"]>>
       [] e.type = "CATALOGUE/SERIES" ->
            <<t(e.id, e.slug, "series", get_art(e.images)) @@ [mediatype |-> "tvshow"]>>
       [] OTHER -> <<>>

\* lines 248 and 277: the diagnostic logged for an entry that is not appended
catalog_log(e) ==
  CASE e.type = "CATALOGUE/LINK" /\ e.linkInfo = <<>> -> <<<<"link not supported", e.slug>>>>
    [] e.type \notin {"CATALOGUE/COLLECTION", "CATALOGUE/LINK", "CATALOGUE/SERIES"} \cup AssetTypes ->
         <<<<"catalog type not supported", e.type>>>>
    [] OTHER -> <<>>

RECURSIVE parse_catalog(_, _)
\* parse_catalog(data): the items appended, in the order of the loop
parse_catalog(data, my_segments) ==
  IF data = <<>> THEN <<>>
  ELSE catalog_item(Head(data), my_segments) \o parse_catalog(Tail(data), my_segments)

RECURSIVE parse_catalog_log(_)
\* the diagnostics parse_catalog(data) logs, in order
parse_catalog_log(data) ==
  IF data = <<>> THEN <<>> ELSE catalog_log(Head(data)) \o parse_catalog_log(Tail(data))

\* an entry in the item shape: the fields are under 'attributes'
ItemEntry(type, i, cs) ==
  [attributes |-> [contentSegments |-> cs, images |-> <<Image("titleArt169")>>,
                   slug |-> <<"slug", i>>, title |-> <<"title", i>>],
   id |-> <<"id", i>>, type |-> type]

\* parse_item(data): 'type' and 'mediatype' are set for four types only
parse_item(e, my_segments) ==
  LET att == e.attributes
      t == [art |-> get_art(att.images), id |-> e.id, slug |-> att.slug, title |-> att.title]
      k == CASE e.type = "CATALOGUE/SERIES" -> [mediatype |-> "tvshow", type |-> "series"]
             [] e.type = "CATALOGUE/SEASON" -> [mediatype |-> "season", type |-> "season"]
             [] e.type = "ASSET/EPISODE" -> [mediatype |-> "episode", type |-> "movie"]
             [] e.type = "ASSET/PROGRAMME" -> [mediatype |-> "movie", type |-> "movie"]
             [] OTHER -> NoFields
  IN t @@ k @@ Entitlement(my_segments, att.contentSegments)

\* parse_items(data): parse_item of every entry, in order
parse_items(data, my_segments) == [k \in 1..Len(data) |-> parse_item(data[k], my_segments)]

(***************************************************************************)
(* The other operations of a live instance.                                *)
(***************************************************************************)
\* the instance the methods below are called on
Self ==
  [files |-> files, age |-> age, account |-> account, platforms |-> platforms,
   logged |-> logged, get_token_error |-> get_token_error, search_list |-> search_list,
   net_headers |-> net_headers, calls |-> <<>>]

\* a method of the live instance ends: no instance is created
Return(m, name, result) == Commit(m, pldir, name, result) /\ UNCHANGED instances

\* the body of a login answer: does json.loads accept it, does it carry
\* 'properties', and the eventType of the properties
LoginBodies ==
  { [json |-> FALSE, properties |-> FALSE, eventType |-> None],
    [json |-> TRUE,  properties |-> FALSE, eventType |-> None],
    [json |-> TRUE,  properties |-> TRUE,  eventType |-> "failure"],
    [json |-> TRUE,  properties |-> TRUE,  eventType |-> "success"] }

\* lines 412-415: json.loads or data.get('properties', []).get raises
LoginRaises(body) == ~body.json \/ ~body.properties

\* lines 394-403: the login POST: no signature, x-skyott-device deleted
login_req == Req("login", NoCookie, None, None, None, None, FALSE, FALSE)

\* lines 412-423: what login returns: (True, content) on the success event,
\* (False, content) from the except clause, and None when the try block
\* ends without a return
login_result(body) ==
  IF LoginRaises(body) THEN <<FALSE, body>>
  ELSE IF body.eventType = "success" THEN <<TRUE, body>>
  ELSE <<>>

\* login(username, password), answered with the cookie jar and the body
login(jar, body) ==
  /\ pldir # None
  /\ LET m == Send(Self, login_req, ~LoginRaises(body) /\ body.eventType = "success")
         stored == ~LoginRaises(body) /\ body.eventType = "success"
         m1 == IF stored
               THEN Save([m EXCEPT !.account.cookie = jar], Path(pldir, "cookie.conf"), jar)
               ELSE m
     IN Return(m1, <<"login">>, login_result(body))

\* delete_cookie()
delete_cookie ==
  /\ pldir # None
  /\ Return(Remove(Self, {Path(pldir, "cookie.conf")}), <<"delete_cookie">>, <<>>)

\* the first profile of the list with this id, 0 when there is none
FindProfile(profiles, id) ==
  IF \E i \in 1..Len(profiles) : profiles[i].id = id
  THEN CHOOSE i \in 1..Len(profiles) :
         /\ profiles[i].id = id
         /\ \A j \in 1..(i-1) : profiles[j].id # id
  ELSE 0

\* the files change_profile removes
ProfileScoped(p) == {Path(p, "profile_info.json"), Path(p, "token.json"), Path(p, "menu.json")}

\* change_profile removing the three files also when no profile matches
change_profile_always_clears(id, profiles) ==
  /\ pldir # None
  /\ LET i == FindProfile(profiles, id)
         m == Send(Self, get_profiles_req(Self, pldir), i > 0)
         m1 == IF i > 0
               THEN Remove(Save(m, Path(pldir, "profile.json"), profiles[i]), ProfileScoped(pldir))
               ELSE Remove(m, ProfileScoped(pldir))
     IN Return(m1, <<"change_profile", id>>, <<>>)

\* change_profile(id), with the fetched list `profiles`
change_profile(id, profiles) ==
  /\ pldir # None
  /\ LET i == FindProfile(profiles, id)
         m == Send(Self, get_profiles_req(Self, pldir), i > 0)
         m1 == IF i > 0
               THEN Remove(Save(m, Path(pldir, "profile.json"), profiles[i]), ProfileScoped(pldir))
               ELSE m
     IN Return(m1, <<"change_profile", id>>, <<>>)

\* get_tokens(), called on the instance: returns the answer
get_tokens(resp) ==
  /\ pldir # None
  /\ Return(Send(Self, get_tokens_req(Self, pldir), resp.userToken # None),
            <<"get_tokens">>, <<resp>>)

\* SessionFiles without device_id.conf
SessionFiles_keep_device(p) ==
  {Path(p, f) : f \in {"localisation.json", "profile.json",
                       "profile_info.json", "token.json", "menu.json", "me.json"}}

\* SessionFiles with cookie.conf added
SessionFiles_with_cookie(p) ==
  {Path(p, f) : f \in {"cookie.conf", "device_id.conf", "localisation.json", "profile.json",
                       "profile_info.json", "token.json", "menu.json", "me.json"}}

\* the files clear_session removes
SessionFiles(p) ==
  {Path(p, f) : f \in {"device_id.conf", "localisation.json", "profile.json",
                       "profile_info.json", "token.json", "menu.json", "me.json"}}

\* clear_session()
clear_session ==
  /\ pldir # None
  /\ Return(Remove(Self, SessionFiles(pldir)), <<"clear_session">>, <<>>)

\* the search terms a caller passes
SearchTerms == {"a", "b", "c"}

\* add_search(search_term)
add_search(term) ==
  /\ pldir # None
  /\ Len(search_list) < MaxSearch
  /\ LET l == Append(search_list, term)
     IN Return(Save([Self EXCEPT !.search_list = l], Shared("searchs.json"), l),
               <<"add_search", term>>, <<>>)

RECURSIVE Without(_, _)
\* line 690: [s for s in l if s != search_term]
Without(l, search_term) ==
  IF l = <<>> THEN <<>>
  ELSE IF Head(l) # search_term
       THEN <<Head(l)>> \o Without(Tail(l), search_term)
       ELSE Without(Tail(l), search_term)

\* delete_search removing the first occurrence only
delete_search_first(term) ==
  /\ pldir # None
  /\ LET hit == {i \in 1..Len(search_list) : search_list[i] = term}
         first == CHOOSE i \in hit : \A j \in hit : i <= j
         l == IF hit = {} THEN search_list
              ELSE SubSeq(search_list, 1, first - 1)
                   \o SubSeq(search_list, first + 1, Len(search_list))
     IN Return(Save([Self EXCEPT !.search_list = l], Shared("searchs.json"), l),
               <<"delete_search", term>>, <<>>)

\* delete_search(search_term)
delete_search(term) ==
  /\ pldir # None
  /\ LET l == Without(search_list, term)
     IN Return(Save([Self EXCEPT !.search_list = l], Shared("searchs.json"), l),
               <<"delete_search", term>>, <<>>)

\* the guide answers
EpgResponses == {"epg1", "epg2"}

\* download_epg with line 848 loading cache/epg.json without a ttl
download_epg_no_ttl(resp) ==
  /\ pldir # None
  /\ LET content == load(files, age, Shared("cache/epg.json"), 0)
     IN IF content # <<>>
        THEN Return(Self, <<"download_epg">>, content)
        ELSE Return(Save(Send(Self, Req("epg", NoCookie, None, None, None, None, FALSE, TRUE), TRUE),
                         Shared("cache/epg.json"), resp),
                    <<"download_epg">>, <<resp>>)

\* download_epg(): served from cache/epg.json while younger than the ttl
download_epg(resp) ==
  /\ pldir # None
  /\ LET content == load(files, age, Shared("cache/epg.json"), EpgTTL)
     IN IF content # <<>>
        THEN Return(Self, <<"download_epg">>, content)
        ELSE Return(Save(Send(Self, Req("epg", NoCookie, None, None, None, None, FALSE, TRUE), TRUE),
                         Shared("cache/epg.json"), resp),
                    <<"download_epg">>, <<resp>>)

\* the menu answers
MenuResponses == {"menu1", "menu2"}

\* lines 732-738 of get_main_menu(): menu.json is loaded without a ttl
get_main_menu(resp) ==
  /\ pldir # None
  /\ LET content == load(files, age, Path(pldir, "menu.json"), 0)
     IN IF content # <<>>
        THEN Return(Self, <<"get_main_menu">>, content)
        ELSE Return(Save(Send(Self, Req("menu", NoCookie, None, None, None, None, FALSE, TRUE), TRUE),
                         Path(pldir, "menu.json"), resp),
                    <<"get_main_menu">>, <<resp>>)

(***************************************************************************)
(* The calls that carry the user token, and the parsers called on the      *)
(* live instance.                                                          *)
(***************************************************************************)
\* the only item of a my-section answer: none without rails, else its items
SectionResponses ==
  { <<>>,
    << <<Entry("CATALOGUE/COLLECTION", 1, FALSE, <<>>),
         Entry("CATALOGUE/LINK", 2, FALSE, <<>>),
         Entry("ASSET/EPISODE", 3, FALSE, << <<"s1">> >>)>> >> }

\* lines 477-483 of get_my_section: signed GET, user token when held
get_my_section_req(m, p) ==
  Req("my-section", NoCookie, None, None, None,
      IF Truthy(m.account.user_token) THEN m.account.user_token ELSE None, TRUE, TRUE)

\* get_my_section(slug): the parsed items of the first rail, or []
get_my_section(slug, resp) ==
  /\ pldir # None
  /\ Return(Send(Self, get_my_section_req(Self, pldir), resp # <<>>),
            <<"get_my_section", slug>>,
            <<IF resp # <<>> THEN parse_catalog(resp[1], account.my_segments) ELSE <<>>>>)

\* get_me(), called on the instance: returns the answer
get_me(resp) ==
  /\ pldir # None
  /\ Return(Send(Self, get_me_req(Self, pldir), TRUE), <<"get_me">>, <<resp>>)

PlatformName(p) == IF p = "skyshowtime" THEN "SkyShowtime" ELSE "PeacockTV"

\* str.lower() of a server name
Lower(s) == IF s = "CDN2" THEN "cdn2" ELSE s

\* the playback answers: 'asset' with its endpoints and 'protection', each
\* <<>> when the key is not in the answer
PlaybackResponses ==
  { [asset |-> <<>>, protection |-> <<>>],
    [asset |-> << <<[cdn |-> "cdn1", url |-> <<"m1">>], [cdn |-> "CDN2", url |-> <<"m2">>]>> >>,
     protection |-> <<[licenceAcquisitionUrl |-> <<"lic">>, licenceToken |-> "lt"]>>] }

\* lines 570-578 of request_playback_tokens: signed POST, user token when held
request_playback_tokens_req(m, p) ==
  Req("playback", NoCookie, None, None, None,
      IF Truthy(m.account.user_token) THEN m.account.user_token ELSE None, TRUE, TRUE)

\* lines 590-596: the url of the first endpoint of the preferred server,
\* else of the first endpoint, else None
ManifestUrl(endpoints, preferred_server) ==
  LET hit == {i \in 1..Len(endpoints) : Lower(endpoints[i].cdn) = Lower(preferred_server)}
  IN IF hit # {} THEN endpoints[CHOOSE i \in hit : \A j \in hit : i <= j].url
     ELSE IF endpoints # <<>> THEN endpoints[1].url
     ELSE NoUrl

\* request_playback_tokens(url, post_data, content_type, preferred_server)
request_playback_tokens(preferred_server, resp) ==
  /\ pldir # None
  /\ LET u == IF resp.asset # <<>> THEN ManifestUrl(resp.asset[1], preferred_server) ELSE NoUrl
         manifest_url == IF u # NoUrl /\ PlatformName(pldir) = "SkyShowtime"
                         THEN u \o <<"&audio=all&subtitle=all&forcedNarrative=true&trickplay=true">>
                         ELSE u
         res == [response |-> resp]
                @@ (IF resp.asset # <<>> THEN [manifest_url |-> manifest_url] ELSE NoFields)
                @@ (IF resp.protection # <<>>
                    THEN [license_token |-> resp.protection[1].licenceToken,
                          license_url |-> resp.protection[1].licenceAcquisitionUrl]
                    ELSE NoFields)
     IN Return(Send(Self, request_playback_tokens_req(Self, pldir), resp.asset # <<>>),
               <<"request_playback_tokens", preferred_server>>, <<res>>)

\* the watchlist answers: the status code, and errorCode and description
\* (None when the body has no errorCode)
WatchlistResponses ==
  { [description |-> None, errorCode |-> None, status_code |-> 201],
    [description |-> "denied", errorCode |-> "OVP_00306", status_code |-> 401],
    [description |-> None, errorCode |-> None, status_code |-> 500] }

\* lines 374-377 of get_video_info: net.load_data(url) with no headers given
get_video_info_req(m, p) == Req("video-info", NoCookie, None, None, None, None, FALSE, TRUE)

\* lines 770-778 of to_watchlist: signed PUT or DELETE, user token when held
to_watchlist_req(m, p) ==
  Req("to-watchlist", NoCookie, None, None, None,
      IF Truthy(m.account.user_token) THEN m.account.user_token ELSE None, TRUE, TRUE)

\* to_watchlist(uuid, slug, action): with a slug the uuid is looked up first
to_watchlist(slug, action, resp) ==
  /\ pldir # None
  /\ LET m == IF Truthy(slug) THEN Send(Self, get_video_info_req(Self, pldir), TRUE) ELSE Self
     IN Return(Send(m, to_watchlist_req(m, pldir), resp.status_code = 201),
               <<"to_watchlist", slug, action>>,
               IF resp.status_code # 201 /\ resp.errorCode # None
               THEN <<resp.errorCode, resp.description>>
               ELSE <<resp.status_code, "">>)

\* get_bookmarks_req without lines 797-798
get_bookmarks_req_no_token(m, p) ==
  Req("get-bookmarks", NoCookie, None, None, None, None, TRUE, TRUE)

\* lines 794-800 of get_bookmarks: signed GET, user token when held
get_bookmarks_req(m, p) ==
  Req("get-bookmarks", NoCookie, None, None, None,
      IF Truthy(m.account.user_token) THEN m.account.user_token ELSE None, TRUE, TRUE)

\* the bookmark answers
BookmarkResponses == {"bookmarks1"}

\* get_bookmarks(): returns the answer
get_bookmarks(resp) ==
  /\ pldir # None
  /\ Return(Send(Self, get_bookmarks_req(Self, pldir), TRUE), <<"get_bookmarks">>, <<resp>>)

\* lines 806-818 of set_bookmark: signed PUT, user token when held
set_bookmark_req(m, p) ==
  Req("set-bookmark", NoCookie, None, None, None,
      IF Truthy(m.account.user_token) THEN m.account.user_token ELSE None, TRUE, TRUE)

\* set_bookmark(content_id, metadata, position): returns the status code
set_bookmark(content_id, position, status_code) ==
  /\ pldir # None
  /\ Return(Send(Self, set_bookmark_req(Self, pldir), status_code = 200),
            <<"set_bookmark", content_id, position>>, <<status_code>>)

\* the device list answers: no 'devices' key (<<>>), or the devices, with
\* an alias that may be None
DeviceResponses ==
  { <<>>,
    << <<[alias |-> None, devicedescription |-> "Phone", deviceid |-> "dev1", type |-> "MOBILE"],
         [alias |-> "tv", devicedescription |-> "TV", deviceid |-> "dev2", type |-> "TV"]>> >> }

\* lines 825-829 of get_devices: GET with the cookie of the account; no
\* signature is computed
get_devices_req(m, p) ==
  Req("devices", m.account.cookie, None, None, None, None, FALSE, TRUE)

\* get_devices(): the devices of the answer, [] without 'devices'
get_devices(resp) ==
  /\ pldir # None
  /\ Return(Send(Self, get_devices_req(Self, pldir), resp # <<>>), <<"get_devices">>,
            <<IF resp = <<>> THEN <<>>
              ELSE [k \in 1..Len(resp[1]) |->
                      [alias |-> IF Truthy(resp[1][k].alias) THEN resp[1][k].alias ELSE "",
                       description |-> resp[1][k].devicedescription,
                       id |-> resp[1][k].deviceid, type |-> resp[1][k].type]]>>)

\* parse_catalog(data), called on the instance
do_parse_catalog(data) ==
  /\ pldir # None
  /\ Return(Self, <<"parse_catalog", data>>, <<parse_catalog(data, account.my_segments)>>)

\* parse_item(data), called on the instance
do_parse_item(data) ==
  /\ pldir # None
  /\ Return(Self, <<"parse_item", data>>, <<parse_item(data, account.my_segments)>>)

\* parse_items(data), called on the instance
do_parse_items(data) ==
  /\ pldir # None
  /\ Return(Self, <<"parse_items", data>>, <<parse_items(data, account.my_segments)>>)

\* get_art(images), called on the instance
do_get_art(images) ==
  /\ pldir # None
  /\ Return(Self, <<"get_art", images>>, <<get_art(images)>>)

\* the schedules of a channel in the guide index: entries with start and end
Schedules ==
  { <<>>,
    <<[end |-> 1, start |-> 0]>>,
    <<[end |-> 2, start |-> 1], [end |-> 3, start |-> 2]>>,
    <<[end |-> 4, start |-> 2], [end |-> 3, start |-> 1]>> }

\* the guide indexes: no channel, or channel ch1 with a schedule
EpgIndexes == {NoFields} \cup {[id \in {"ch1"} |-> l] : l \in Schedules}

\* the values of time.time()
Clock == 1..4

\* the timestamps a caller passes: <<>> when the argument is not given
Timestamps == {<<>>} \cup {<<t>> : t \in 0..4}

\* find_program_epg(epg, service_key, timestamp): timestamp is <<>> when it
\* is not given; epg[id] raises KeyError for a channel that is not a key
find_program_epg(epg, service_key, timestamp, now) ==
  /\ pldir # None
  /\ LET t == IF timestamp = <<>> \/ timestamp = <<0>> THEN now ELSE timestamp[1]
         hit == IF service_key \in DOMAIN epg
                THEN {i \in 1..Len(epg[service_key]) :
                        epg[service_key][i].start <= t /\ t <= epg[service_key][i].end}
                ELSE {}
     IN Return(Self, <<"find_program_epg", epg, service_key, timestamp>>,
               IF service_key \notin DOMAIN epg THEN <<[exception |-> "KeyError"]>>
               ELSE IF hit # {}
                    THEN <<epg[service_key][CHOOSE i \in hit : \A j \in hit : i <= j]>>
                    ELSE <<>>)

\* the schedule items of a guide payload
GuideItems ==
  {[data |-> [title |-> <<"title", st>>], durationSeconds |-> 4 - st, startTimeUTC |-> st] :
     st \in 1..3}

\* the guide payloads: channel ch1 with at most two schedule items, in any
\* order
GuidePayloads ==
  {[channels |-> <<[scheduleItems |-> items, serviceKey |-> "ch1"]>>] :
     items \in SeqsUpTo(GuideItems, 2)}

\* lines 923-936 of get_epg: the entry built for a schedule item (start,
\* end, title and duration are kept)
epg_entry(i) ==
  [end |-> i.startTimeUTC + i.durationSeconds,
   info |-> [duration |-> i.durationSeconds, title |-> i.data.title],
   start |-> i.startTimeUTC]

\* lines 917-937 of get_epg: per serviceKey, the entries of the schedule
\* items in the order of the payload (a later channel with the same key
\* replaces an earlier one)
epg_index(epg) ==
  LET keys == {epg.channels[c].serviceKey : c \in 1..Len(epg.channels)}
      last(id) == CHOOSE c \in 1..Len(epg.channels) :
                    /\ epg.channels[c].serviceKey = id
                    /\ \A d \in 1..Len(epg.channels) :
                          epg.channels[d].serviceKey = id => d <= c
  IN [id \in keys |->
        [k \in 1..Len(epg.channels[last(id)].scheduleItems) |->
           epg_entry(epg.channels[last(id)].scheduleItems[k])]]

\* the indexes get_epg builds from the payloads
GuideIndexes == {epg_index(epg) : epg \in GuidePayloads}

\* get_epg(): the index of the guide that download_epg serves from
\* cache/epg.json while it is fresh, or fetches (resp) and saves
get_epg(resp) ==
  /\ pldir # None
  /\ LET content == load(files, age, Shared("cache/epg.json"), EpgTTL)
         epg == IF content # <<>> THEN content[1] ELSE resp
         m == IF content # <<>> THEN Self
              ELSE Save(Send(Self, Req("epg", NoCookie, None, None, None, None, FALSE, TRUE), TRUE),
                        Shared("cache/epg.json"), resp)
     IN Return(m, <<"get_epg">>, <<epg_index(epg)>>)

\* the key bundles: host and cookie of either platform
KeyBundles ==
  {[app_name |-> "skyott", timestamp |-> t, host |-> <<"https://www.">> \o PlatformHost(p),
    data |-> jar] : t \in {1}, p \in Platforms, jar \in CookieJars}

\* export_key_file(directory, filename): the bundle written to the key file
\* stands for the result; None has no decode(), so a session without cookie
\* raises.  The cookie is text here: decode() and encode() do not alter it
export_key_file(now) ==
  /\ pldir # None
  /\ Return(Self, <<"export_key_file">>,
            IF account.cookie = NoCookie THEN <<[exception |-> "AttributeError"]>>
            ELSE <<[app_name |-> "skyott", timestamp |-> now,
                    host |-> <<"https://www.">> \o PlatformHost(pldir),
                    data |-> account.cookie]>>)

\* line 953: 'peacocktv' in data['host']
output_dir(data) ==
  IF \E k \in 1..Len(data.host) : data.host[k] = "peacocktv" THEN "peacocktv" ELSE "skyshowtime"

\* import_key_file writing to the directory of the session's own platform
import_key_file_own_platform(data) ==
  /\ pldir # None
  /\ Return(Save(Self, Path(pldir, "cookie.conf"), data.data),
            <<"import_key_file", data>>, <<>>)

\* import_key_file(filename), with the bundle `data` read from the file
import_key_file(data) ==
  /\ pldir # None
  /\ Return(Save(Self, Path(output_dir(data), "cookie.conf"), data.data),
            <<"import_key_file", data>>, <<>>)

(***************************************************************************)
(* The environment: time passes, the interpreter is restarted.             *)
(***************************************************************************)
\* the files read through Cache.load, whose age is looked at
AgedFiles == {"localisation.json", "token.json", "me.json", "menu.json", "cache/epg.json"}

\* the seconds that pass between two operations
TickSteps == {59, 60}

Min(a, b) == IF a < b THEN a ELSE b

\* time.time() advances by d seconds
Tick(d) ==
  /\ age' = [q \in Paths |-> IF q[2] \in AgedFiles /\ files[q] # <<>>
                             THEN Min(age[q] + d, MaxAge) ELSE age[q]]
  /\ age' # age
  /\ op' = <<"tick">>
  /\ calls' = <<>>
  /\ ret' = <<>>
  /\ UNCHANGED <<files, account, platforms, pldir, logged, get_token_error,
                 search_list, net_headers, instances>>

\* a new interpreter: the class attributes are as the class body sets them,
\* and no instance exists
NewProcess ==
  /\ pldir # None
  /\ account' = InitAccount
  /\ platforms' = InitPlatforms
  /\ pldir' = None
  /\ logged' = FALSE
  /\ get_token_error' = ""
  /\ search_list' = <<>>
  /\ net_headers' = [activeterritory |-> None, language |-> None, territory |-> None]
  /\ instances' = 0
  /\ op' = <<"start">>
  /\ calls' = <<>>
  /\ ret' = <<>>
  /\ UNCHANGED <<files, age>>

\* an empty configuration directory and a new interpreter
Init ==
  /\ files = [q \in Paths |-> <<>>]
  /\ age = [q \in Paths |-> 0]
  /\ account = InitAccount
  /\ platforms = InitPlatforms
  /\ pldir = None
  /\ logged = FALSE
  /\ get_token_error = ""
  /\ search_list = <<>>
  /\ net_headers = [activeterritory |-> None, language |-> None, territory |-> None]
  /\ instances = 0
  /\ op = <<"start">>
  /\ calls = <<>>
  /\ ret = <<>>

(***************************************************************************)
(* Specifications.  Each one runs the operations of one concern, answered  *)
(* from the part of Upstream that the concern depends on.                  *)
(***************************************************************************)
\* the answers of an upstream where nothing fails
Healthy ==
  [dev |-> {"dev1"},
   loc |-> {r \in LocResponses : r.activeterritory = "XX"},
   profiles |-> {<<Profile1, Profile2>>},
   info |-> {r \in ProfileInfoResponses : r.has_lang},
   tok |-> {r \in TokenResponses : r.userToken = "tok1"},
   me |-> {<<"s1">>}]

\* the login answers with the success event
SuccessBodies == {b \in LoginBodies : b.json /\ b.properties /\ b.eventType = "success"}

\* session bootstrap: territory, localisation, profile list, token and me
\* answers vary; sessions are cleared, cookies come and go
Next ==
  \/ \E t \in Territories :
        Bootstrap("skyshowtime", t, [Upstream EXCEPT !.dev = Healthy.dev, !.info = Healthy.info])
  \/ \E jar \in CookieJars, body \in SuccessBodies : login(jar, body)
  \/ delete_cookie
  \/ clear_session
  \/ NewProcess

Spec == Init /\ [][Next]_vars

\* cache freshness: time passes between bootstraps, guide and menu loads
NextTime ==
  \/ Bootstrap("skyshowtime", None, [Healthy EXCEPT !.tok = TokenResponses])
  \/ \E resp \in EpgResponses : download_epg(resp)
  \/ \E resp \in MenuResponses : get_main_menu(resp)
  \/ clear_session
  \/ \E d \in TickSteps : Tick(d)
  \/ NewProcess

SpecTime == Init /\ [][NextTime]_vars

\* profile switch: the profile list and the token answers vary
NextProfile ==
  \/ Bootstrap("skyshowtime", None,
               [Healthy EXCEPT !.profiles = ProfileLists, !.tok = TokenResponses])
  \/ \E id \in {"p1", "p2", "p3"}, profiles \in ProfileLists : change_profile(id, profiles)
  \/ \E resp \in TokenResponses : get_tokens(resp)
  \/ \E resp \in MenuResponses : get_main_menu(resp)
  \/ NewProcess

SpecProfile == Init /\ [][NextProfile]_vars

\* session reset: both platforms, searches, guide and menu
NextClear ==
  \/ \E p \in Platforms : Bootstrap(p, None, [Healthy EXCEPT !.dev = DeviceIds])
  \/ \E jar \in {j \in CookieJars : SearchHterr(j) # None}, body \in SuccessBodies :
        login(jar, body)
  \/ \E term \in {"a"} : add_search(term)
  \/ \E resp \in {"epg1"} : download_epg(resp)
  \/ \E resp \in {"menu1"} : get_main_menu(resp)
  \/ clear_session
  \/ NewProcess

SpecClear == Init /\ [][NextClear]_vars

\* login: every kind of answer
NextLogin ==
  \/ \E t \in Territories : Bootstrap("skyshowtime", t, Healthy)
  \/ \E jar \in CookieJars, body \in LoginBodies : login(jar, body)
  \/ delete_cookie
  \/ NewProcess

SpecLogin == Init /\ [][NextLogin]_vars

\* a token answer whose userToken is the empty string
EmptyToken == [userToken |-> "", description |-> None]

\* the calls that carry the user token, after bootstraps whose token answer
\* varies
NextRequests ==
  \/ Bootstrap("skyshowtime", None, [Healthy EXCEPT !.tok = TokenResponses \cup {EmptyToken}])
  \/ \E resp \in SectionResponses : get_my_section("/home/continue-watching", resp)
  \/ \E resp \in MeResponses : get_me(resp)
  \/ \E s \in {"", "cdn2"}, resp \in PlaybackResponses : request_playback_tokens(s, resp)
  \/ \E slug \in {None, "/movies/m1"}, action \in {"add", "remove"},
        resp \in WatchlistResponses : to_watchlist(slug, action, resp)
  \/ \E resp \in BookmarkResponses : get_bookmarks(resp)
  \/ \E status_code \in {200, 401} : set_bookmark("c1", 10, status_code)
  \/ clear_session
  \/ NewProcess

SpecRequests == Init /\ [][NextRequests]_vars

\* the contentSegments of an entry: no key, no segment, two segments, one
SegmentOptions == { <<>>, << <<>> >>, << <<"s3", "s1">> >>, << <<"s3">> >> }

\* the entries whose entitlement is looked at: a collection, an episode and
\* a link that is dropped
SegmentEntries(i) ==
  {Entry(type, i, FALSE, cs) :
     type \in {"CATALOGUE/COLLECTION", "ASSET/EPISODE", "CATALOGUE/LINK"}, cs \in SegmentOptions}

\* the rails of one or two of these entries
SegmentRails ==
  {<<e1>> : e1 \in SegmentEntries(1)}
  \cup {<<e1, e2>> : e1 \in SegmentEntries(1), e2 \in SegmentEntries(2)}

\* single entries in the item shape
SegmentItems ==
  {ItemEntry(type, 1, cs) :
     type \in {"CATALOGUE/SERIES", "ASSET/EPISODE", "ASSET/SLE"}, cs \in SegmentOptions}

\* entitlement: the segments of the session come from the me answer of a
\* bootstrap; lists of one or two entries and single items are parsed
NextEntitlement ==
  \/ Bootstrap("skyshowtime", None,
               [Healthy EXCEPT !.tok = {r \in TokenResponses : r.userToken # "tok2"},
                               !.me = {<<"s1", "s2">>, <<"s4">>}])
  \/ \E data \in SegmentRails : do_parse_catalog(data)
  \/ \E data \in SegmentItems : do_parse_item(data)
  \/ clear_session
  \/ NewProcess

SpecEntitlement == Init /\ [][NextEntitlement]_vars

\* every list of at most MaxImages images
ImageLists ==
  {[k \in 1..Len(types) |-> Image(types[k])] : types \in SeqsUpTo(ImageTypes, MaxImages)}

\* art: the lists are resolved
NextArt ==
  \/ Bootstrap("skyshowtime", None, Healthy)
  \/ \E images \in ImageLists : do_get_art(images)
  \/ NewProcess

SpecArt == Init /\ [][NextArt]_vars

\* guide lookup: every index, channel and timestamp
NextEpg ==
  \/ Bootstrap("skyshowtime", None, Healthy)
  \/ \E epg \in EpgIndexes, id \in {"ch1", "ch2"}, now \in Clock, timestamp \in Timestamps :
        find_program_epg(epg, id, timestamp, now)
  \/ NewProcess

SpecEpg == Init /\ [][NextEpg]_vars

\* the kinds of entries of a rail: a type, with or without linkInfo
EntryKinds ==
  {<<type, FALSE>> : type \in EntryTypes} \cup {<<"CATALOGUE/LINK", TRUE>>}

\* the kinds that make up the longer rails
RailKinds ==
  {k \in EntryKinds : k[1] \in {"CATALOGUE/COLLECTION", "CATALOGUE/LINK",
                                "ASSET/EPISODE", "CATALOGUE/GROUP"}}

RECURSIVE RailUpTo(_, _)
\* the first n entries of the rail whose i-th entry is of the i-th kind
RailUpTo(kinds, n) ==
  IF n = 0 THEN <<>>
  ELSE Append(RailUpTo(kinds, n - 1), Entry(kinds[n][1], n, kinds[n][2], <<>>))

\* the rail whose i-th entry is of the i-th kind
Rail(kinds) == RailUpTo(kinds, Len(kinds))

\* every entry alone, and every rail of at most MaxItems entries
Rails ==
  {Rail(<<k>>) : k \in EntryKinds} \cup {Rail(kinds) : kinds \in SeqsUpTo(RailKinds, MaxItems)}

\* catalog: the rails are parsed
NextCatalog ==
  \/ Bootstrap("skyshowtime", None, Healthy)
  \/ \E data \in Rails : do_parse_catalog(data)
  \/ \E resp \in SectionResponses : get_my_section("/home/continue-watching", resp)
  \/ NewProcess

SpecCatalog == Init /\ [][NextCatalog]_vars

\* key files: both platforms, cookies stored by login, exported and
\* imported
NextKeys ==
  \/ \E p \in Platforms : Bootstrap(p, None, Healthy)
  \/ \E jar \in CookieJars, body \in SuccessBodies : login(jar, body)
  \/ \E now \in {1} : export_key_file(now)
  \/ \E data \in KeyBundles : import_key_file(data)
  \/ delete_cookie
  \/ NewProcess

SpecKeys == Init /\ [][NextKeys]_vars

\* device identity: bootstraps of both platforms, logins, profile switches,
\* cookie deletions, key imports and token mints, without clear_session
NextDevice ==
  \/ \E p \in Platforms : Bootstrap(p, None, [Healthy EXCEPT !.dev = DeviceIds])
  \/ \E jar \in {j \in CookieJars : SearchHterr(j) # None}, body \in SuccessBodies :
        login(jar, body)
  \/ \E id \in {"p2"}, profiles \in Healthy.profiles : change_profile(id, profiles)
  \/ delete_cookie
  \/ \E data \in {b \in KeyBundles : SearchHterr(b.data) = None} : import_key_file(data)
  \/ \E resp \in Healthy.tok : get_tokens(resp)
  \/ NewProcess

SpecDevice == Init /\ [][NextDevice]_vars

\* privileged requests: bootstraps that fetch the profile list, the
\* profile info, the token and the me answer, and the calls made on the
\* session afterwards
NextPrivileged ==
  \/ \E t \in Territories : Bootstrap("skyshowtime", t, [Healthy EXCEPT !.tok = TokenResponses])
  \/ \E jar \in CookieJars, body \in LoginBodies : login(jar, body)
  \/ \E id \in {"p2"}, profiles \in ProfileLists : change_profile(id, profiles)
  \/ \E resp \in TokenResponses : get_tokens(resp)
  \/ \E resp \in MeResponses : get_me(resp)
  \/ \E resp \in DeviceResponses : get_devices(resp)
  \/ clear_session
  \/ NewProcess

SpecPrivileged == Init /\ [][NextPrivileged]_vars

\* re-entry: bootstraps with and without override, before and after a
\* login, while time passes
NextReentry ==
  \/ \E t \in Territories :
        Bootstrap("skyshowtime", t, [Healthy EXCEPT !.loc = LocResponses, !.tok = TokenResponses])
  \/ \E jar \in {j \in CookieJars : SearchHterr(j) # None}, body \in SuccessBodies :
        login(jar, body)
  \/ \E d \in TickSteps : Tick(d)
  \/ clear_session
  \/ NewProcess

SpecReentry == Init /\ [][NextReentry]_vars

\* the type discriminators of the entries of a relationship list: three
\* that parse_item names, a playable one it does not, and an unknown one
ItemTypes ==
  {"CATALOGUE/SERIES", "CATALOGUE/SEASON", "ASSET/EPISODE", "ASSET/SLE", "CATALOGUE/GROUP"}

\* every list of at most MaxItems entries in the item shape
ItemLists ==
  {[k \in 1..Len(types) |-> ItemEntry(types[k], k, <<>>)] : types \in SeqsUpTo(ItemTypes, MaxItems)}

\* items: the lists are parsed
NextItems ==
  \/ Bootstrap("skyshowtime", None, Healthy)
  \/ \E data \in ItemLists : do_parse_items(data)
  \/ NewProcess

SpecItems == Init /\ [][NextItems]_vars

\* guide: the index is built from payloads in any order and looked up
NextGuide ==
  \/ Bootstrap("skyshowtime", None, Healthy)
  \/ \E resp \in GuidePayloads : get_epg(resp)
  \/ \E epg \in GuideIndexes, now \in {2}, timestamp \in Timestamps :
        find_program_epg(epg, "ch1", timestamp, now)
  \/ NewProcess

SpecGuide == Init /\ [][NextGuide]_vars

\* searches: terms are added and deleted, sessions come and go
NextSearch ==
  \/ Bootstrap("skyshowtime", None, Healthy)
  \/ \E term \in SearchTerms : add_search(term)
  \/ \E term \in SearchTerms : delete_search(term)
  \/ clear_session
  \/ NewProcess

SpecSearch == Init /\ [][NextSearch]_vars

(***************************************************************************)
(* Properties.                                                             *)
(***************************************************************************)
\* the names of the requests of a log, in order
CallNames(c) == [i \in 1..Len(c) |-> c[i].name]

\* the requests of a log with this name
CallsTo(c, name) == {i \in 1..Len(c) : c[i].name = name}

\* the localisation, profile list and token answers of a log were successful
Succeeded(c) ==
  \A i \in 1..Len(c) : c[i].name \in {"localisation", "profiles", "tokens"} => c[i].ok

\* no file at all is persisted
NoFiles == \A q \in Paths : files[q] = <<>>

\* C1: a bootstrap that starts with no persisted file and whose localisation,
\* profile list and token answers are successful generates the device id,
\* fetches the localisation, selects the default profile, mints the token and
\* loads the segments exactly once each, and ends with device_id.conf,
\* localisation.json, profile.json, token.json and me.json persisted.
C1_FirstRun ==
  [][ (op'[1] = "bootstrap" /\ NoFiles /\ Succeeded(calls'))
      => /\ CallNames(calls') = <<"localisation", "profiles", "profile_info", "tokens", "me">>
         /\ files'[Path(pldir', "device_id.conf")] = <<platforms'[pldir'].device_id>>
         /\ platforms'[pldir'].device_id \in DeviceIds
         /\ \A f \in {"device_id.conf", "localisation.json", "profile.json",
                      "token.json", "me.json"} : files'[Path(pldir', f)] # <<>>
         /\ account'.profile_id = Profile1.id
         /\ files'[Path(pldir', "profile.json")] = <<Profile1>>
         /\ account'.user_token = files'[Path(pldir', "token.json")][1].userToken
    ]_vars

\* a first bootstrap of a new interpreter that fetched everything
C1_Witness ==
  /\ op[1] = "bootstrap"
  /\ instances = 1
  /\ account.cookie = NoCookie
  /\ CallNames(calls) = <<"localisation", "profiles", "profile_info", "tokens", "me">>
  /\ Succeeded(calls)
  /\ \A f \in {"device_id.conf", "localisation.json", "profile.json",
               "token.json", "me.json"} : files[Path(pldir, f)] # <<>>

\* C2: a bootstrap sends a token mint request if and only if token.json is
\* absent or was written 60 seconds or more before; it sends at most one;
\* when it sends none, token.json is left as it is and the session ends with
\* the user token that token.json holds.
C2_MintIffStale ==
  [][ op'[1] = "bootstrap"
      => LET tf == Path(pldir', "token.json") IN
         /\ (CallsTo(calls', "tokens") # {}) <=> (files[tf] = <<>> \/ age[tf] >= 60)
         /\ Cardinality(CallsTo(calls', "tokens")) <= 1
         /\ CallsTo(calls', "tokens") = {}
              => /\ files'[tf] = files[tf]
                 /\ age'[tf] = age[tf]
                 /\ account'.user_token = files[tf][1].userToken
    ]_vars

\* a second bootstrap, 59 seconds after the mint, that reused the token
C2_Witness ==
  /\ op[1] = "bootstrap"
  /\ instances = 2
  /\ CallsTo(calls, "tokens") = {}
  /\ files[Path(pldir, "token.json")] # <<>>
  /\ age[Path(pldir, "token.json")] = 59
  /\ account.user_token = files[Path(pldir, "token.json")][1].userToken

\* C3: after change_profile(id) with an id of the fetched list, profile.json
\* holds that profile and profile_info.json, token.json and menu.json are
\* absent; and the token mint that comes next on the session, sent by
\* get_tokens or by a bootstrap, carries the new profile id as personaId.
C3_ProfileSwitch ==
  [][ /\ (op'[1] = "change_profile" /\ calls'[1].ok)
         => /\ files'[Path(pldir, "profile.json")] # <<>>
            /\ files'[Path(pldir, "profile.json")][1].id = op'[2]
            /\ \A f \in {"profile_info.json", "token.json", "menu.json"} :
                  files'[Path(pldir, f)] = <<>>
      /\ (op[1] = "change_profile" /\ calls[1].ok)
         => \A i \in CallsTo(calls', "tokens") : calls'[i].personaId = op[2]
    ]_vars

\* the territory a bootstrap resolved: the argument when one is given, else
\* the hterr of the session cookie, else None
Resolved(territory, cookie) ==
  IF Truthy(territory) THEN territory
  ELSE IF CookieTruthy(cookie) THEN SearchHterr(cookie)
  ELSE None

\* C4 as stated, for the header x-skyott-activeterritory: after a bootstrap
\* the active territory is the override when one is given, else the
\* territory of the cookie when it has one, else the localisation's.
C4_ActiveTerritory ==
  [][ (op'[1] = "bootstrap" /\ files'[Path(pldir', "localisation.json")] # <<>>)
      => LET t == Resolved(op'[3], account'.cookie) IN
         platforms'[pldir'].headers.activeterritory =
           IF t # None THEN t
           ELSE files'[Path(pldir', "localisation.json")][1].activeterritory
    ]_vars

\* C4 (amended): after a bootstrap the header x-skyott-territory, which is
\* also the providerTerritory of the token mint, is the override when one is
\* given, else the hterr territory of the session cookie when it has one,
\* else the territory of the localisation (and what it was before when there
\* is no localisation).
C4_Territory ==
  [][ op'[1] = "bootstrap"
      => LET t == Resolved(op'[3], account'.cookie)
             lf == files'[Path(pldir', "localisation.json")]
             expected == IF t # None THEN t
                         ELSE IF lf # <<>> THEN lf[1].territory
                         ELSE platforms[pldir'].headers.territory
         IN /\ platforms'[pldir'].headers.territory = expected
            /\ net_headers'.territory = expected
            /\ \A i \in CallsTo(calls', "tokens") : calls'[i].providerTerritory = expected
    ]_vars

\* a bootstrap without override, with a cookie of territory PL and a
\* localisation of territory NL, that ended with territory PL
C4_Witness ==
  /\ op[1] = "bootstrap"
  /\ op[3] = None
  /\ CookieTruthy(account.cookie)
  /\ SearchHterr(account.cookie) = "PL"
  /\ files[Path(pldir, "localisation.json")] # <<>>
  /\ files[Path(pldir, "localisation.json")][1].territory = "NL"
  /\ platforms[pldir].headers.territory = "PL"

\* C5: the session serves token.json and cache/epg.json from the cache
\* exactly while they are less than 60 seconds old, and localisation.json,
\* me.json and menu.json whenever they exist, at any age; what is served is
\* the stored value, and what is not served is fetched.
C5_CacheFreshness ==
  [][ /\ op'[1] = "bootstrap"
         => /\ (CallsTo(calls', "tokens") = {})
                 <=> (files[Path(pldir', "token.json")] # <<>>
                      /\ age[Path(pldir', "token.json")] < 60)
            /\ (CallsTo(calls', "localisation") = {})
                 <=> files[Path(pldir', "localisation.json")] # <<>>
            /\ Truthy(account'.user_token)
                 => /\ (CallsTo(calls', "me") = {}) <=> files[Path(pldir', "me.json")] # <<>>
                    /\ files[Path(pldir', "me.json")] # <<>>
                         => files'[Path(pldir', "me.json")] = files[Path(pldir', "me.json")]
      /\ op'[1] = "download_epg"
         => /\ (calls' = <<>>) <=> (files[Shared("cache/epg.json")] # <<>>
                                    /\ age[Shared("cache/epg.json")] < 60)
            /\ calls' = <<>> => ret' = files[Shared("cache/epg.json")]
            /\ ret' = files'[Shared("cache/epg.json")]
      /\ op'[1] = "get_main_menu"
         => /\ (calls' = <<>>) <=> files[Path(pldir, "menu.json")] # <<>>
            /\ calls' = <<>> => ret' = files[Path(pldir, "menu.json")]
    ]_vars

\* a bootstrap that minted a token because token.json was 60 seconds old,
\* and was served the localisation and the me answer of the same age, while
\* the guide is no longer fresh
C5_Witness ==
  /\ op[1] = "bootstrap"
  /\ CallNames(calls) = <<"tokens">>
  /\ calls[1].ok
  /\ age[Path(pldir, "localisation.json")] >= 60
  /\ age[Path(pldir, "me.json")] >= 60
  /\ age[Path(pldir, "menu.json")] >= 60
  /\ files[Path(pldir, "menu.json")] # <<>>
  /\ files[Shared("cache/epg.json")] # <<>>
  /\ age[Shared("cache/epg.json")] >= 60

\* C6 as stated: clear_session leaves device_id.conf and searchs.json with
\* the content they had, and the bootstrap that follows on the platform uses
\* the device id that was in use before.
C6_DevicePreserved ==
  [][ /\ op'[1] = "clear_session"
         => /\ files'[Path(pldir, "device_id.conf")] = files[Path(pldir, "device_id.conf")]
            /\ files'[Shared("searchs.json")] = files[Shared("searchs.json")]
      /\ (op[1] = "clear_session" /\ op'[1] = "bootstrap" /\ op'[2] = pldir)
         => platforms'[pldir].device_id = platforms[pldir].device_id
    ]_vars

\* C6 (amended): clear_session leaves searchs.json with the content it had
\* and removes device_id.conf; the bootstrap that follows on the platform
\* creates a device id and persists it.
C6_SearchesPreserved ==
  [][ /\ op'[1] = "clear_session"
         => /\ files'[Shared("searchs.json")] = files[Shared("searchs.json")]
            /\ search_list' = search_list
            /\ files'[Path(pldir, "device_id.conf")] = <<>>
      /\ (op[1] = "clear_session" /\ op'[1] = "bootstrap" /\ op'[2] = pldir)
         => /\ files[Path(pldir, "device_id.conf")] = <<>>
            /\ platforms'[pldir].device_id \in DeviceIds
            /\ files'[Path(pldir, "device_id.conf")] = <<platforms'[pldir].device_id>>
    ]_vars

\* a session with a saved search and a device id was cleared
C6_Witness ==
  /\ op[1] = "clear_session"
  /\ files[Shared("searchs.json")] # <<>>
  /\ Len(files[Shared("searchs.json")][1]) > 0
  /\ platforms[pldir].device_id \in DeviceIds
  /\ files[Path(pldir, "device_id.conf")] = <<>>

\* C7: clear_session removes device_id.conf, localisation.json, profile.json,
\* profile_info.json, token.json, menu.json and me.json of the platform of
\* the session and changes no other file (the cookie.conf of the platform,
\* searchs.json, cache/epg.json, the files of the other platform); the
\* bootstrap that follows on the platform with cookie.conf present loads the
\* cookie, is logged in, and sends no login request.
C7_ClearSessionFrame ==
  [][ /\ op'[1] = "clear_session"
         => \A q \in Paths :
              files'[q] = IF q[1] = pldir
                             /\ q[2] \in {"device_id.conf", "localisation.json", "profile.json",
                                          "profile_info.json", "token.json", "menu.json",
                                          "me.json"}
                          THEN <<>> ELSE files[q]
      /\ (op[1] = "clear_session" /\ op'[1] = "bootstrap" /\ op'[2] = pldir
            /\ files[Path(pldir, "cookie.conf")] # <<>>)
         => /\ logged'
            /\ account'.cookie = files[Path(pldir, "cookie.conf")][1]
            /\ CallsTo(calls', "login") = {}
            /\ files'[Path(pldir, "cookie.conf")] = files[Path(pldir, "cookie.conf")]
    ]_vars

\* a logged-in session was cleared while the other platform had a session,
\* a search was saved and the guide was cached
C7_Witness ==
  /\ op[1] = "clear_session"
  /\ files[Path(pldir, "cookie.conf")] # <<>>
  /\ \A f \in PlatformFiles \ {"cookie.conf"} : files[Path(pldir, f)] = <<>>
  /\ \E p \in Platforms \ {pldir} :
        \A f \in PlatformFiles \ {"menu.json"} : files[Path(p, f)] # <<>>
  /\ files[Shared("searchs.json")] # <<>>
  /\ files[Shared("cache/epg.json")] # <<>>

\* the elements of a list
Range(l) == {l[i] : i \in 1..Len(l)}

\* C8: when the token answer of a bootstrap has no userToken but a
\* description, the description is kept in get_token_error, token.json is
\* not written, and the bootstrap ends unauthenticated: the session holds no
\* user token and no me request was sent.
C8_TokenFailure ==
  [][ (op'[1] = "bootstrap" /\ \E i \in CallsTo(calls', "tokens") : ~calls'[i].ok)
      => /\ get_token_error' = "denied"
         /\ files'[Path(pldir', "token.json")] = files[Path(pldir', "token.json")]
         /\ age'[Path(pldir', "token.json")] = age[Path(pldir', "token.json")]
         /\ account'.user_token = None
         /\ CallsTo(calls', "me") = {}
    ]_vars

\* C9: after a bootstrap, the entitlement set of the session is the set of
\* segment names of the me answer the bootstrap used when it acquired a
\* token (from the cache or by a successful mint), and is empty, with no
\* user token, when it did not; a me request always carries a user token.
C9_SegmentsOfLatest ==
  [][ op'[1] = "bootstrap"
      => LET acquired == /\ \A i \in CallsTo(calls', "tokens") : calls'[i].ok
                         /\ files'[Path(pldir', "token.json")] # <<>>
         IN /\ acquired
                 => /\ files'[Path(pldir', "me.json")] # <<>>
                    /\ Range(account'.my_segments) = Range(files'[Path(pldir', "me.json")][1])
            /\ ~acquired
                 => /\ account'.my_segments = <<>>
                    /\ account'.user_token = None
            /\ \A i \in CallsTo(calls', "me") : calls'[i].usertoken # None
    ]_vars

\* C10: login returns a pair: (True, body) with the cookie stored in the
\* session and in cookie.conf when the body carries the success event,
\* (False, body) with the session cookie and cookie.conf unchanged otherwise.
C10_LoginPair ==
  [][ op'[1] = "login"
      => /\ Len(ret') = 2
         /\ calls'[1].ok
              => /\ ret'[1] = TRUE
                 /\ CookieTruthy(account'.cookie)
                 /\ files'[Path(pldir, "cookie.conf")] = <<account'.cookie>>
         /\ ~calls'[1].ok
              => /\ ret'[1] = FALSE
                 /\ account'.cookie = account.cookie
                 /\ files'[Path(pldir, "cookie.conf")] = files[Path(pldir, "cookie.conf")]
    ]_vars

\* the operations that attach the user token, with the name of their request
TokenBearers ==
  [get_my_section |-> "my-section", get_me |-> "me", request_playback_tokens |-> "playback",
   to_watchlist |-> "to-watchlist", get_bookmarks |-> "get-bookmarks",
   set_bookmark |-> "set-bookmark"]

\* C11: each of get_my_section, get_me, request_playback_tokens,
\* to_watchlist, get_bookmarks and set_bookmark sends its request with the
\* header x-skyott-usertoken if and only if the session holds a user token
\* (account['user_token'] is neither None nor empty), and the value of the
\* header is that token.
C11_BearerHeader ==
  [][op'[1] \in DOMAIN TokenBearers =>
       /\ CallsTo(calls', TokenBearers[op'[1]]) # {}
       /\ \A i \in CallsTo(calls', TokenBearers[op'[1]]) :
            /\ (calls'[i].usertoken # None) <=> Truthy(account.user_token)
            /\ calls'[i].usertoken # None => calls'[i].usertoken = account'.user_token]_vars

\* an item is put on the watchlist by its slug: the lookup carries no token,
\* the PUT carries the token of the session
C11_Witness ==
  /\ op[1] = "to_watchlist"
  /\ Len(calls) = 2
  /\ calls[1].usertoken = None
  /\ calls[2].usertoken = "tok2"
  /\ account.user_token = "tok2"

\* C12: no profile-list, profile-info or token-mint request is sent while
\* the session holds no cookie: every such request of an operation carries
\* a cookie, also during a bootstrap that finds no cookie.conf.
C12_CookieRequired ==
  \A i \in 1..Len(calls) :
     calls[i].name \in {"profiles", "profile_info", "tokens"} => CookieTruthy(calls[i].cookie)

\* the fields 'segments' and 'subscribed' of item t are as the payload's
\* contentSegments cs (<<>> without the key) and the session's segments say
EntitlementOf(t, cs, my_segments) ==
  IF cs = <<>>
  THEN "subscribed" \notin DOMAIN t /\ "segments" \notin DOMAIN t
  ELSE /\ {"subscribed", "segments"} \subseteq DOMAIN t
       /\ t.segments = cs[1]
       /\ t.subscribed = (Range(cs[1]) \cap Range(my_segments) # {})

\* C13: an item returned by parse_catalog or parse_item whose payload has
\* contentSegments has subscribed = TRUE exactly when one of its segments
\* is among the segments of the session (so FALSE when the session has
\* none), and an item whose payload has no contentSegments has neither a
\* 'subscribed' nor a 'segments' field.
C13_Entitlement ==
  /\ op[1] = "parse_catalog" =>
        \A k \in 1..Len(ret[1]) : \E j \in 1..Len(op[2]) :
           /\ op[2][j].id = ret[1][k].id
           /\ EntitlementOf(ret[1][k], op[2][j].contentSegments, account.my_segments)
  /\ op[1] = "parse_item" =>
        EntitlementOf(ret[1], op[2].attributes.contentSegments, account.my_segments)

\* an episode with two segments, one of them among the two of the session,
\* is subscribed, next to a collection without contentSegments
C13_Witness ==
  /\ op[1] = "parse_catalog"
  /\ account.my_segments = <<"s1", "s2">>
  /\ Len(ret[1]) = 2
  /\ "subscribed" \notin DOMAIN ret[1][1]
  /\ "segments" \in DOMAIN ret[1][2]
  /\ ret[1][2].segments = <<"s3", "s1">>
  /\ ret[1][2].subscribed

\* C14: for every list of images, in every order, get_art resolves poster
\* to the 16:9 title art if the list has one, else to the 4:3 title art if
\* it has one, else to the 4:3 non-title art, and thumb to the scene169
\* image if the list has one, else to the poster it resolved.
C14_ArtFallback ==
  op[1] = "get_art" =>
    LET images == op[2]
        art == ret[1]
        Has(type) == \E i \in 1..Len(images) : images[i].type = type
        Url(type) == image_url(Image(type).url)
        poster == IF Has("titleArt169") THEN Url("titleArt169")
                  ELSE IF Has("titleArt34") THEN Url("titleArt34")
                  ELSE IF Has("nonTitleArt34") THEN Url("nonTitleArt34")
                  ELSE NoUrl
    IN /\ art.poster = poster
       /\ art.thumb = IF Has("scene169") THEN Url("scene169") ELSE art.poster

\* C15: find_program_epg(epg, channel, timestamp) returns the first entry of
\* the channel with start <= timestamp <= end, and None, not an error, when
\* no entry matches or the index has no schedule for the channel.
C15_FindProgram ==
  op[1] = "find_program_epg" /\ op[4] # <<>> =>
    LET epg == op[2]
        l == IF op[3] \in DOMAIN epg THEN epg[op[3]] ELSE <<>>
        hit == {i \in 1..Len(l) : l[i].start <= op[4][1] /\ op[4][1] <= l[i].end}
    IN IF hit = {} THEN ret = <<>>
       ELSE \E i \in hit : (\A j \in hit : i <= j) /\ ret = <<l[i]>>

\* parse_catalog is to return an item for this entry
Kept(e) ==
  \/ e.type \in {"CATALOGUE/COLLECTION", "CATALOGUE/SERIES"} \cup AssetTypes
  \/ e.type = "CATALOGUE/LINK" /\ e.linkInfo # <<>>

\* the positions of the entries of data that are kept, in order
KeptPositions(data) ==
  LET Test(i) == Kept(data[i]) IN SelectSeq([i \in 1..Len(data) |-> i], Test)

\* C16: parse_catalog returns, in the order of the input, exactly one item
\* for each collection, each link with linkInfo (slug and id from linkInfo),
\* each series and each playable asset; a link without linkInfo and an entry
\* of another type give no item but a diagnostic, and the entries after them
\* are still parsed.
C16_CatalogItems ==
  op[1] = "parse_catalog" =>
    LET rail == op[2]
        res == ret[1]
        pos == KeptPositions(rail)
    IN /\ Len(res) = Len(pos)
       /\ \A k \in 1..Len(pos) :
            LET e == rail[pos[k]] IN
            IF e.type = "CATALOGUE/LINK"
            THEN res[k].id = e.linkInfo[1].nodeId /\ res[k].slug = e.linkInfo[1].slug
            ELSE res[k].id = e.id /\ res[k].slug = e.slug
       /\ Len(parse_catalog_log(rail)) = Len(rail) - Len(res)

\* a collection, a link without linkInfo and an episode give two items
C16_Witness ==
  /\ op[1] = "parse_catalog"
  /\ Len(op[2]) = 3
  /\ op[2][1].type = "CATALOGUE/COLLECTION"
  /\ op[2][2].type = "CATALOGUE/LINK" /\ op[2][2].linkInfo = <<>>
  /\ op[2][3].type = "ASSET/EPISODE"
  /\ Len(ret[1]) = 2
  /\ ret[1][1].id = op[2][1].id /\ ret[1][1].type = "category"
  /\ ret[1][2].id = op[2][3].id /\ ret[1][2].type = "movie"

\* C17: import_key_file writes the cookie of the bundle into cookie.conf of
\* the platform its host names (peacocktv when the host contains
\* 'peacocktv', else skyshowtime), whatever the platform of the session,
\* and changes no other file; when the bundle is the one export_key_file
\* just wrote on the same platform, cookie.conf then equals the cookie of
\* the session that was exported.
C17_KeyRoundTrip ==
  [][op'[1] = "import_key_file" =>
       LET data == op'[2]
           dir == IF \E k \in 1..Len(data.host) : data.host[k] = "peacocktv"
                  THEN "peacocktv" ELSE "skyshowtime"
       IN /\ files'[Path(dir, "cookie.conf")] = <<data.data>>
          /\ \A q \in Paths \ {Path(dir, "cookie.conf")} : files'[q] = files[q]
          /\ op[1] = "export_key_file" /\ ret = <<data>> =>
                /\ dir = pldir
                /\ files'[Path(pldir, "cookie.conf")] = <<account.cookie>>]_vars

\* a session of skyshowtime imported the bundle that a session of peacocktv
\* exported: the cookie went to peacocktv, not to the session's platform
C17_Witness ==
  /\ op[1] = "import_key_file"
  /\ pldir = "skyshowtime"
  /\ op[2].host = <<"https://www.", "peacocktv", ".com">>
  /\ files[Path("peacocktv", "cookie.conf")] = <<op[2].data>>
  /\ files[Path("skyshowtime", "cookie.conf")] # <<op[2].data>>

\* C18: without clear_session, the device id of a platform is generated
\* once: over bootstraps, logins, profile switches, cookie deletions and key
\* imports a persisted device_id.conf never changes, every bootstrap that
\* finds it loads it, and every token-mint request carries it.
C18_DeviceImmutable ==
  [][/\ \A p \in Platforms :
          files[Path(p, "device_id.conf")] # <<>> =>
            files'[Path(p, "device_id.conf")] = files[Path(p, "device_id.conf")]
     /\ op'[1] = "bootstrap" =>
          <<platforms'[op'[2]].device_id>> = files'[Path(op'[2], "device_id.conf")]
     /\ \A i \in CallsTo(calls', "tokens") :
          <<calls'[i].deviceId>> = files'[Path(pldir', "device_id.conf")]]_vars

\* the second bootstrap of an interpreter mints a token with the id dev2
\* that the first one generated
C18_Witness ==
  /\ op[1] = "bootstrap"
  /\ instances = 2
  /\ files[Path(pldir, "device_id.conf")] = <<"dev2">>
  /\ \A p \in Platforms \ {pldir} : files[Path(p, "device_id.conf")] = <<>>
  /\ \E i \in CallsTo(calls, "tokens") : calls[i].deviceId = "dev2"

C21_LocalisationResolution ==
  [][op'[1] = "bootstrap" =>
       LET lf == Path(op'[2], "localisation.json")
           cf == Path(op'[2], "cookie.conf")
       IN /\ files[cf] # <<>> => CallsTo(calls', "localisation") = {}
          /\ (files[cf] # <<>> /\ ~Truthy(op'[3]) /\ SearchHterr(files[cf][1]) # None)
               => platforms'[op'[2]].headers.territory = SearchHterr(files[cf][1])
          /\ CallsTo(calls', "localisation") # {} => files[cf] = <<>> /\ files[lf] = <<>>
          /\ (\E i \in CallsTo(calls', "localisation") : calls'[i].ok)
               => files'[lf] # <<>> /\ age'[lf] = 0
          /\ files[lf] # <<>> =>
               CallsTo(calls', "localisation") = {} /\ files'[lf] = files[lf]]_vars

\* C22: every profile list, profile info, token, me and device list request
\* an operation sends carries a signature; the login request carries none,
\* and no x-skyott-device header, and is the only request with a credential
\* (a cookie or a user token) that is sent unsigned.
C22_PrivilegedSigned ==
  \A i \in 1..Len(calls) :
     /\ calls[i].name \in {"profiles", "profile_info", "tokens", "me", "devices"}
          => calls[i].signed
     /\ calls[i].name = "login" => ~calls[i].signed /\ ~calls[i].device_header
     /\ (~calls[i].signed /\ (CookieTruthy(calls[i].cookie) \/ calls[i].usertoken # None))
          => calls[i].name = "login"

\* the bootstrap step a request belongs to
StepOf(name) ==
  CASE name = "localisation" -> 2
    [] name \in {"profiles", "profile_info"} -> 3
    [] name = "tokens" -> 4
    [] name = "me" -> 5
    [] OTHER -> 0

\* C23: the requests of a bootstrap are sent in the order of the steps
\* localisation, profile selection, token acquisition, segment load; the
\* token mint carries the device id persisted by the device step and the
\* profile id of the profile step; and a me request is sent only by a
\* bootstrap that acquired a token, from a fresh token.json or by a
\* successful mint.
C23_StepOrder ==
  [][op'[1] = "bootstrap" =>
       LET p == op'[2]
           pf == files'[Path(p, "profile.json")]
       IN /\ \A i, j \in 1..Len(calls') :
               i < j => StepOf(calls'[i].name) <= StepOf(calls'[j].name)
          /\ \A i \in CallsTo(calls', "tokens") :
               /\ <<calls'[i].deviceId>> = files'[Path(p, "device_id.conf")]
               /\ calls'[i].personaId = IF pf # <<>> THEN pf[1].id ELSE None
          /\ CallsTo(calls', "me") # {} =>
               /\ \A i \in CallsTo(calls', "tokens") : calls'[i].ok
               /\ files'[Path(p, "token.json")] # <<>>]_vars

\* the files of a complete session are persisted and token.json is fresh
Persisted(p) ==
  /\ \A f \in {"device_id.conf", "localisation.json", "profile.json", "profile_info.json",
               "me.json"} : files[Path(p, f)] # <<>>
  /\ files[Path(p, "token.json")] # <<>>
  /\ age[Path(p, "token.json")] < 60

\* C24: a bootstrap that starts with device_id.conf, localisation.json,
\* profile.json, profile_info.json and me.json persisted and a token.json
\* younger than 60 seconds sends no request and writes no file; its device
\* id, profile id and user token are those of the files, and its headers
\* are the hints of localisation.json with the territory and the display
\* language applied; when the bootstrap before it was made with the same
\* arguments, it ends with the same device id, profile id, user token and
\* headers as that one.
C24_Reentrant ==
  [][(op'[1] = "bootstrap" /\ Persisted(op'[2])) =>
       LET p == op'[2]
           t == Resolved(op'[3], account'.cookie)
           loc == files[Path(p, "localisation.json")][1]
           info == files[Path(p, "profile_info.json")][1]
       IN /\ calls' = <<>>
          /\ files' = files
          /\ age' = age
          /\ platforms'[p].device_id = files[Path(p, "device_id.conf")][1]
          /\ account'.profile_id = files[Path(p, "profile.json")][1].id
          /\ account'.user_token = files[Path(p, "token.json")][1].userToken
          /\ net_headers' = platforms'[p].headers
          /\ net_headers'.territory = IF t # None THEN t ELSE loc.territory
          /\ net_headers'.activeterritory =
               IF t # None /\ loc.activeterritory = "XX" THEN t ELSE loc.activeterritory
          /\ net_headers'.language = IF info.has_lang THEN info.displayLanguage ELSE loc.language
          /\ (op[1] = "bootstrap" /\ op[2] = p /\ op[3] = op'[3]) =>
               /\ platforms' = platforms
               /\ account'.profile_id = account.profile_id
               /\ account'.user_token = account.user_token
               /\ net_headers' = net_headers]_vars

\* a bootstrap with the override GB, 59 seconds after the token was minted,
\* that sent nothing
C24_Witness ==
  /\ op[1] = "bootstrap"
  /\ op[3] = "GB"
  /\ calls = <<>>
  /\ Persisted(pldir)
  /\ age[Path(pldir, "token.json")] = 59
  /\ account.user_token = files[Path(pldir, "token.json")][1].userToken
  /\ net_headers.territory = "GB"

\* C25: delete_cookie removes cookie.conf of the platform and no other
\* file; a bootstrap that starts without cookie.conf, in the same
\* interpreter or in a new one, is not logged in, sends no cookie on its
\* requests, and without override its territory is the one of the
\* localisation (or the one the platform had), not one of a cookie.
C25_NoCredential ==
  [][/\ op'[1] = "delete_cookie" =>
          \A q \in Paths :
             files'[q] = IF q = Path(pldir, "cookie.conf") THEN <<>> ELSE files[q]
     /\ (op'[1] = "bootstrap" /\ files[Path(op'[2], "cookie.conf")] = <<>>) =>
          LET p == op'[2]
              lf == files'[Path(p, "localisation.json")]
          IN /\ ~logged'
             /\ \A i \in 1..Len(calls') : ~CookieTruthy(calls'[i].cookie)
             /\ ~Truthy(op'[3]) =>
                  platforms'[p].headers.territory =
                    IF lf # <<>> THEN lf[1].territory ELSE platforms[p].headers.territory]_vars

\* C26: change_profile(id) with an id that no profile of the fetched list
\* has returns None without raising, and leaves every persisted file and
\* the state of the session (account, platform table, headers, searches) as
\* they were.
C26_ProfileNotFound ==
  [][(op'[1] = "change_profile" /\ ~calls'[1].ok) =>
       /\ ret' = <<>>
       /\ Len(calls') = 1
       /\ calls'[1].name = "profiles"
       /\ UNCHANGED <<files, age, account, platforms, pldir, logged, get_token_error,
                      search_list, net_headers, instances>>]_vars

\* change_profile('p3') on a session of profile p1 with a token and a menu
C26_Witness ==
  /\ op = <<"change_profile", "p3">>
  /\ ~calls[1].ok
  /\ account.profile_id = "p1"
  /\ files[Path(pldir, "profile.json")] = <<Profile1>>
  /\ files[Path(pldir, "token.json")] # <<>>
  /\ files[Path(pldir, "menu.json")] # <<>>
  /\ files[Path(pldir, "profile_info.json")] # <<>>

\* C27: parse_items returns no item for an entry whose type is not one of
\* CATALOGUE/SERIES, CATALOGUE/SEASON, ASSET/EPISODE and ASSET/PROGRAMME:
\* every item returned has a 'type' among series, season and movie, and
\* there are as many items as entries of these four types.
C27_ItemsSkipUnknown ==
  op[1] = "parse_items" =>
    LET data == op[2]
        res == ret[1]
        known == {i \in 1..Len(data) :
                    data[i].type \in {"CATALOGUE/SERIES", "CATALOGUE/SEASON", "ASSET/EPISODE",
                                      "ASSET/PROGRAMME"}}
    IN /\ Len(res) = Cardinality(known)
       /\ \A k \in 1..Len(res) :
            "type" \in DOMAIN res[k] /\ res[k].type \in {"series", "season", "movie"}

\* C28: the index get_epg returns holds, for each channel of the payload,
\* one entry per schedule item with end = start + duration, ordered by
\* non-decreasing start whatever the order of the payload; and
\* find_program_epg on such an index returns, among the entries that contain
\* the timestamp, one with the earliest start.
C28_EpgChronological ==
  /\ op[1] = "get_epg" =>
       LET epg == files[Shared("cache/epg.json")][1]
           res == ret[1]
       IN \A c \in 1..Len(epg.channels) :
            LET l == res[epg.channels[c].serviceKey] IN
            /\ Len(l) = Len(epg.channels[c].scheduleItems)
            /\ \A k \in 1..Len(l) : l[k].end = l[k].start + l[k].info.duration
            /\ \A j, k \in 1..Len(l) : j < k => l[j].start <= l[k].start
  /\ (op[1] = "find_program_epg" /\ op[4] # <<>> /\ op[4] # <<0>>) =>
       LET l == op[2][op[3]]
           hit == {i \in 1..Len(l) : l[i].start <= op[4][1] /\ op[4][1] <= l[i].end}
       IN IF hit = {} THEN ret = <<>>
          ELSE \E i \in hit : ret = <<l[i]>> /\ \A j \in hit : l[i].start <= l[j].start

\* C29: after add_search or delete_search, searchs.json holds the search
\* list of the session; add_search appends the term at the end, also when
\* the list has it already; delete_search removes every occurrence of the
\* term and keeps the others in their order, and leaves the list as it is
\* when the term is not in it.
C29_SearchList ==
  [][/\ op'[1] \in {"add_search", "delete_search"} =>
          files'[Shared("searchs.json")] = <<search_list'>>
     /\ op'[1] = "add_search" => search_list' = Append(search_list, op'[2])
     /\ op'[1] = "delete_search" =>
          LET Other(s) == s # op'[2] IN
          /\ search_list' = SelectSeq(search_list, Other)
          /\ op'[2] \notin Range(search_list) => search_list' = search_list]_vars

\* the term a was deleted from a list that held b before c: b and c are
\* left in that order, in the session and in searchs.json
C29_Witness ==
  /\ op = <<"delete_search", "a">>
  /\ search_list = <<"b", "c">>
  /\ files[Shared("searchs.json")] = <<search_list>>

\* C30: the bootstrap that follows a successful change_profile(id) ends with
\* the profile id and type of the new profile, fetches the profile info and
\* mints the token for the new id, and, when it holds a token, fetches the
\* segments anew instead of reading the me.json that was there before the
\* switch.
C30_ProfileScoped ==
  [][(op[1] = "change_profile" /\ calls[1].ok /\ op'[1] = "bootstrap" /\ op'[2] = pldir) =>
       LET pf == files'[Path(pldir, "profile.json")][1] IN
       /\ pf.id = op[2]
       /\ account'.profile_id = pf.id
       /\ account'.profile_type = pf.type
       /\ CallsTo(calls', "profile_info") # {}
       /\ \A i \in CallsTo(calls', "profile_info") : calls'[i].personaId = op[2]
       /\ CallsTo(calls', "tokens") # {}
       /\ \A i \in CallsTo(calls', "tokens") : calls'[i].personaId = op[2]
       /\ Truthy(account'.user_token) =>
            /\ CallsTo(calls', "me") # {}
            /\ files[Path(pldir, "me.json")] = <<>>]_vars

====
